---- MODULE Spec2Model ----
(***************************************************************************)
(* iogoogle.gspreadsheet: GSpreadSheet, a handle on one remote spreadsheet *)
(* that keeps a local registry of its sheets (a dict name -> GSheet) and   *)
(* forwards range reads and writes to the Google Sheets v4 service.        *)
(*                                                                         *)
(* Python values are modelled with their identity where the code shares    *)
(* them: the registry dict lives in `heap` and the handle's field `sheets` *)
(* is a reference into it.  The remote service is the environment: its     *)
(* state is `remote`, and every request may also be refused or lose its    *)
(* response (`fault`).                                                     *)
(***************************************************************************)
EXTENDS Integers, Sequences, FiniteSets, TLC

VARIABLES
    constructed,   \* whether __post_init__ has returned normally
    heap,          \* dict objects: reference -> (name -> GSheet)
    sheets,        \* GSpreadSheet.sheets: a reference into heap, or NoRef
    info,          \* the caller's variable holding what get_sheets_info returned
    remote,        \* the remote spreadsheet: its tabs, in order, and their cells
    sent,          \* the requests the last operation issued to the service
    lastOp         \* the last call: operation, arguments, outcome

vars == <<constructed, heap, sheets, info, remote, sent, lastOp>>

----------------------------------------------------------------------------
(* Bounds and input sets *)

MaxSheetId == 1
MaxBatch == 2

Titles == {"Sheet1", "Sheet2"}
Names == Titles \cup {"Ghost"}
SheetIds == 0..MaxSheetId

ROWS == "ROWS"
COLUMNS == "COLUMNS"

NoRef == "NoRef"
Dict1 == "dict1"
None == "None"

Faults == {"none", "refused", "lost"}

----------------------------------------------------------------------------
(* Python values *)

GSheet(name, sheet_id) == [name |-> name, sheet_id |-> sheet_id]

GSheets == {GSheet(n, i) : n \in Names, i \in SheetIds}

EmptyDict == [k \in {} |-> GSheet("", 0)]

\* d.get(key, default)
DictGet(d, key, default) == IF key \in DOMAIN d THEN d[key] ELSE default

\* d[key] = value
DictSet(d, key, value) ==
    [k \in (DOMAIN d) \cup {key} |-> IF k = key THEN value ELSE d[k]]

\* d.pop(key), for a key that is present
DictPop(d, key) == [k \in (DOMAIN d) \ {key} |-> d[k]]

\* what self.sheets refers to
Registry == heap[sheets]

RemoteServiceError(exc) == exc \in {"HttpError", "TransportError"}

----------------------------------------------------------------------------
(* The remote service: spreadsheets().get *)

RemoteTitles(rem) == {rem.sheets[i].title : i \in 1..Len(rem.sheets)}
RemoteIds(rem) == {rem.sheets[i].sheetId : i \in 1..Len(rem.sheets)}

\* The response to spreadsheets().get(spreadsheetId).execute()
SpreadsheetsGet(rem, fault) ==
    IF fault = "refused" THEN [ok |-> FALSE, error |-> "HttpError"]
    ELSE IF fault = "lost" THEN [ok |-> FALSE, error |-> "TransportError"]
    ELSE [ok |-> TRUE,
          body |-> [sheets |-> [i \in 1..Len(rem.sheets) |->
                        [properties |-> [title |-> rem.sheets[i].title,
                                         sheetId |-> rem.sheets[i].sheetId]]]]]

----------------------------------------------------------------------------
(* The registry operations, as functions of the dict *)

add_sheet(d, gsheet) == DictSet(d, gsheet.name, gsheet)

RECURSIVE AddEach(_, _, _)
\* for i in sheets_metadata: self.add_sheet(GSheet(title, sheetId)), from the n-th on
AddEach(d, sheets_metadata, n) ==
    IF n > Len(sheets_metadata) THEN d
    ELSE LET property_ == sheets_metadata[n].properties
         IN  AddEach(add_sheet(d, GSheet(property_.title, property_.sheetId)),
                     sheets_metadata, n + 1)

set_sheets_replacing(d, fault) ==
    LET resp == SpreadsheetsGet(remote, fault)
    IN  IF ~resp.ok
        THEN [exc |-> resp.error, sheets |-> EmptyDict]
        ELSE [exc |-> None,
              sheets |-> AddEach(EmptyDict, DictGet(resp.body, "sheets", <<>>), 1)]

\* The dict after set_sheets_of_the_spreadsheet ran on dict d, and the exception
\* it raised, if any.
set_sheets_of_the_spreadsheet(d, fault) ==
    LET resp == SpreadsheetsGet(remote, fault)
    IN  IF ~resp.ok
        THEN [exc |-> resp.error, sheets |-> d]
        ELSE [exc |-> None,
              sheets |-> AddEach(d, DictGet(resp.body, "sheets", <<>>), 1)]

GetRequest == [api |-> "spreadsheets.get"]

----------------------------------------------------------------------------
(* Actions: construction and the registry *)

PostInit_no_fetch(fault) ==
    /\ ~constructed
    /\ constructed' = TRUE
    /\ heap' = [r \in {Dict1} |-> EmptyDict]
    /\ sheets' = Dict1
    /\ sent' = <<>>
    /\ lastOp' = [op |-> "__post_init__", exc |-> None]
    /\ UNCHANGED <<info, remote>>

\* GSpreadSheet(spreadsheet_id, credentials): sheets = {} and __post_init__
PostInit(fault) ==
    /\ ~constructed
    /\ LET r == set_sheets_of_the_spreadsheet(EmptyDict, fault)
       IN  /\ sent' = <<GetRequest>>
           /\ lastOp' = [op |-> "__post_init__", exc |-> r.exc]
           /\ IF r.exc = None
              THEN /\ constructed' = TRUE
                   /\ heap' = [x \in {Dict1} |-> r.sheets]
                   /\ sheets' = Dict1
              ELSE UNCHANGED <<constructed, heap, sheets>>
    /\ UNCHANGED <<info, remote>>

SetSheets(fault) ==
    /\ constructed
    /\ LET r == set_sheets_of_the_spreadsheet(Registry, fault)
       IN  /\ sent' = <<GetRequest>>
           /\ lastOp' = [op |-> "set_sheets_of_the_spreadsheet", exc |-> r.exc]
           /\ heap' = [heap EXCEPT ![sheets] = r.sheets]
    /\ UNCHANGED <<constructed, sheets, info, remote>>

AddSheet_keeps_old(gsheet) ==
    /\ constructed
    /\ heap' = [heap EXCEPT ![sheets] =
                    IF gsheet.name \in DOMAIN @ THEN @ ELSE add_sheet(@, gsheet)]
    /\ sent' = <<>>
    /\ lastOp' = [op |-> "add_sheet", gsheet |-> gsheet, exc |-> None]
    /\ UNCHANGED <<constructed, sheets, info, remote>>

AddSheet_creates_tab(gsheet) ==
    /\ constructed
    /\ heap' = [heap EXCEPT ![sheets] = add_sheet(@, gsheet)]
    /\ sent' = <<[api |-> "spreadsheets.batchUpdate", addSheet |-> gsheet.name]>>
    /\ remote' = IF gsheet.name \in RemoteTitles(remote) THEN remote
                 ELSE [remote EXCEPT !.sheets =
                          Append(@, [title |-> gsheet.name, sheetId |-> gsheet.sheet_id])]
    /\ lastOp' = [op |-> "add_sheet", gsheet |-> gsheet, exc |-> None]
    /\ UNCHANGED <<constructed, sheets, info>>

AddSheet(gsheet) ==
    /\ constructed
    /\ heap' = [heap EXCEPT ![sheets] = add_sheet(@, gsheet)]
    /\ sent' = <<>>
    /\ lastOp' = [op |-> "add_sheet", gsheet |-> gsheet, exc |-> None]
    /\ UNCHANGED <<constructed, sheets, info, remote>>

RemoveSheet_silent(name) ==
    /\ constructed
    /\ heap' = [heap EXCEPT ![sheets] = DictPop(@, name)]
    /\ lastOp' = [op |-> "remove_sheet", name |-> name, exc |-> None]
    /\ sent' = <<>>
    /\ UNCHANGED <<constructed, sheets, info, remote>>

\* self.sheets.pop(name): KeyError when name is no key
RemoveSheet(name) ==
    /\ constructed
    /\ IF name \in DOMAIN Registry
       THEN /\ heap' = [heap EXCEPT ![sheets] = DictPop(@, name)]
            /\ lastOp' = [op |-> "remove_sheet", name |-> name, exc |-> None]
       ELSE /\ heap' = heap
            /\ lastOp' = [op |-> "remove_sheet", name |-> name, exc |-> "KeyError"]
    /\ sent' = <<>>
    /\ UNCHANGED <<constructed, sheets, info, remote>>

\* return self.sheets: the caller receives the reference itself
GetSheetsInfo ==
    /\ constructed
    /\ info' = sheets
    /\ sent' = <<>>
    /\ lastOp' = [op |-> "get_sheets_info", exc |-> None, result |-> Registry]
    /\ UNCHANGED <<constructed, heap, sheets, remote>>

\* The caller changes the dict it was handed: del info[name]
CallerDeletes(name) ==
    /\ info # NoRef
    /\ name \in DOMAIN heap[info]
    /\ heap' = [heap EXCEPT ![info] = DictPop(@, name)]
    /\ sent' = <<>>
    /\ lastOp' = [op |-> "caller: del info[name]", name |-> name, exc |-> None]
    /\ UNCHANGED <<constructed, sheets, info, remote>>

----------------------------------------------------------------------------
(* The environment: the spreadsheet is edited out of band *)

Rows == {1, 2}
Cols == {1, 2}
Cells == Rows \X Cols

Empty == [kind |-> "empty", text |-> ""]
Number(t) == [kind |-> "number", text |-> t]
Text(t) == [kind |-> "text", text |-> t]

EmptyGrid == [c \in Cells |-> Empty]

RemoteAddsTab(title, id) ==
    /\ title \notin RemoteTitles(remote)
    /\ id \notin RemoteIds(remote)
    /\ remote' = [sheets |-> Append(remote.sheets, [title |-> title, sheetId |-> id]),
                  cells |-> DictSet(remote.cells, title, EmptyGrid)]
    /\ sent' = <<>>
    /\ lastOp' = [op |-> "remote: tab added", exc |-> None]
    /\ UNCHANGED <<constructed, heap, sheets, info>>

RemoteDeletesTab(title) ==
    /\ title \in RemoteTitles(remote)
    /\ Len(remote.sheets) > 1
    /\ remote' = [sheets |-> SelectSeq(remote.sheets, LAMBDA s : s.title # title),
                  cells |-> DictPop(remote.cells, title)]
    /\ sent' = <<>>
    /\ lastOp' = [op |-> "remote: tab deleted", exc |-> None]
    /\ UNCHANGED <<constructed, heap, sheets, info>>

----------------------------------------------------------------------------
(* Specification of construction and the registry *)

InitialTabs ==
    { <<[title |-> "Sheet1", sheetId |-> 0]>>,
      <<[title |-> "Sheet1", sheetId |-> 0], [title |-> "Sheet2", sheetId |-> 1]>> }

Init ==
    /\ constructed = FALSE
    /\ heap = [r \in {} |-> EmptyDict]
    /\ sheets = NoRef
    /\ info = NoRef
    /\ \E tabs \in InitialTabs :
          remote = [sheets |-> tabs,
                    cells |-> [t \in {tabs[i].title : i \in 1..Len(tabs)} |->
                                  [EmptyGrid EXCEPT ![<<1, 1>>] = Text("a")]]]
    /\ sent = <<>>
    /\ lastOp = [op |-> "none", exc |-> None]

Next ==
    \/ \E fault \in Faults : PostInit(fault)
    \/ \E fault \in Faults : SetSheets(fault)
    \/ \E gsheet \in GSheets : AddSheet(gsheet)
    \/ \E name \in Names : RemoveSheet(name)
    \/ GetSheetsInfo
    \/ \E name \in Names : CallerDeletes(name)
    \/ \E title \in Titles, id \in SheetIds : RemoteAddsTab(title, id)
    \/ \E title \in Titles : RemoteDeletesTab(title)

Spec == Init /\ [][Next]_vars

----------------------------------------------------------------------------
(* Python values of cells, range addresses, dimensions *)

PyInt(t) == [type |-> "int", repr |-> t]
PyStr(t) == [type |-> "str", repr |-> t]

\* "name!box": the f-string of clear_spreadsheet_contents builds one from a name
Address(name, box) == [sheet |-> name, box |-> box]

ClearExtent == 100
ClearBox == "R1C1:R100C100"

DimensionStrings == {"rows", "ROWS", "columns", "COLUMNS"}

\* str.upper on the dimension strings; every other string the model sends is
\* upper case already
upper(s) ==
    CASE s = "rows" -> "ROWS"
      [] s = "columns" -> "COLUMNS"
      [] OTHER -> s

\* Range(range_str, values, dimension)
Range(range_str, values, dimension) ==
    [range_str |-> range_str, values |-> values, dimension |-> dimension]

----------------------------------------------------------------------------
(* The remote service: spreadsheets().values() *)

Min(a, b) == IF a < b THEN a ELSE b
MaxOf(S) == CHOOSE x \in S : \A y \in S : y <= x

BoxRect(box) ==
    CASE box = "A1" -> [r1 |-> 1, c1 |-> 1, r2 |-> 1, c2 |-> 1]
      [] box = "A1:B1" -> [r1 |-> 1, c1 |-> 1, r2 |-> 1, c2 |-> 2]
      [] box = "A1:B2" -> [r1 |-> 1, c1 |-> 1, r2 |-> 2, c2 |-> 2]
      [] box = ClearBox -> [r1 |-> 1, c1 |-> 1, r2 |-> ClearExtent, c2 |-> ClearExtent]

\* A range resolves when it names a tab of the spreadsheet
RangeOK(rem, range) == range.sheet \in RemoteTitles(rem)

\* Rows and columns of the range that lie on the sheet
NRows(range) == Min(BoxRect(range.box).r2, MaxOf(Rows)) - BoxRect(range.box).r1 + 1
NCols(range) == Min(BoxRect(range.box).c2, MaxOf(Cols)) - BoxRect(range.box).c1 + 1

Transpose(m) ==
    IF Len(m) = 0 THEN <<>>
    ELSE [j \in 1..Len(m[1]) |-> [i \in 1..Len(m) |-> m[i][j]]]

\* USER_ENTERED: the value is parsed as if typed; RAW: stored as given
Parsed(v, valueInputOption) ==
    IF v.type = "int" THEN Number(v.repr)
    ELSE IF v.repr = "" THEN Empty
    ELSE IF valueInputOption = "USER_ENTERED" /\ v.repr \in {"1", "01"} THEN Number("1")
    ELSE Text(v.repr)

\* FORMATTED_VALUE, the default rendering of a read: always a string
Formatted(content) == PyStr(content.text)

RECURSIVE TrimRight(_, _)
\* a list without its trailing elements equal to blank
TrimRight(row, blank) ==
    IF Len(row) > 0 /\ row[Len(row)] = blank
    THEN TrimRight(SubSeq(row, 1, Len(row) - 1), blank)
    ELSE row

\* The values of a range as the service returns them: major dimension first,
\* trailing empty cells and trailing empty lists omitted
RangeValues(rem, range, majorDimension) ==
    LET rect == BoxRect(range.box)
        grid == rem.cells[range.sheet]
        rows == [i \in 1..NRows(range) |-> [j \in 1..NCols(range) |->
                    Formatted(grid[<<rect.r1 + i - 1, rect.c1 + j - 1>>])]]
        major == IF majorDimension = ROWS THEN rows ELSE Transpose(rows)
        trimmed == [i \in 1..Len(major) |-> TrimRight(major[i], PyStr(""))]
    IN  TrimRight(trimmed, <<>>)

ValueRange(rem, range, majorDimension) ==
    LET vals == RangeValues(rem, range, majorDimension)
    IN  IF vals = <<>>
        THEN [range |-> range, majorDimension |-> majorDimension]
        ELSE [range |-> range, majorDimension |-> majorDimension, values |-> vals]

\* values().get(range, majorDimension).execute()
ValuesGet(rem, req, fault) ==
    IF fault # "none" THEN [ok |-> FALSE, error |-> "TransportError"]
    ELSE IF req.majorDimension \notin {ROWS, COLUMNS} \/ ~RangeOK(rem, req.range)
    THEN [ok |-> FALSE, error |-> "HttpError"]
    ELSE [ok |-> TRUE, body |-> ValueRange(rem, req.range, req.majorDimension)]

\* values().batchGet(ranges, majorDimension).execute()
ValuesBatchGet(rem, req, fault) ==
    IF fault # "none" THEN [ok |-> FALSE, error |-> "TransportError"]
    ELSE IF \/ req.majorDimension \notin {ROWS, COLUMNS}
            \/ \E i \in 1..Len(req.ranges) : ~RangeOK(rem, req.ranges[i])
    THEN [ok |-> FALSE, error |-> "HttpError"]
    ELSE IF Len(req.ranges) = 0 THEN [ok |-> TRUE, body |-> [spreadsheetId |-> "id"]]
    ELSE [ok |-> TRUE,
          body |-> [spreadsheetId |-> "id",
                    valueRanges |-> [i \in 1..Len(req.ranges) |->
                        ValueRange(rem, req.ranges[i], req.majorDimension)]]]

\* The rows a write body addresses
BodyRows(body) == IF body.majorDimension = ROWS THEN body.values ELSE Transpose(body.values)

\* A write is accepted when its range resolves, its dimension is one of the two
\* and its values do not reach outside the range
WriteOK(rem, range, body) ==
    /\ body.majorDimension \in {ROWS, COLUMNS}
    /\ RangeOK(rem, range)
    /\ Len(BodyRows(body)) <= NRows(range)
    /\ \A i \in 1..Len(BodyRows(body)) : Len(BodyRows(body)[i]) <= NCols(range)

\* The spreadsheet after an accepted write: the cells given are set, no other
Written(rem, range, body, valueInputOption) ==
    LET rect == BoxRect(range.box)
        rows == BodyRows(body)
        given(c) == /\ c[1] - rect.r1 + 1 \in 1..Len(rows)
                    /\ c[2] - rect.c1 + 1 \in 1..Len(rows[c[1] - rect.r1 + 1])
    IN  [rem EXCEPT !.cells[range.sheet] =
            [c \in Cells |->
                IF given(c)
                THEN Parsed(rows[c[1] - rect.r1 + 1][c[2] - rect.c1 + 1], valueInputOption)
                ELSE @[c]]]

\* values().update(range, body, valueInputOption).execute(): a refused request
\* never arrives, a lost response hides a request that was served
ValuesUpdate(rem, req, fault) ==
    IF fault = "refused" THEN [error |-> "TransportError", remote |-> rem]
    ELSE IF ~WriteOK(rem, req.range, req.body)
    THEN [error |-> IF fault = "lost" THEN "TransportError" ELSE "HttpError",
          remote |-> rem]
    ELSE [error |-> IF fault = "lost" THEN "TransportError" ELSE None,
          remote |-> Written(rem, req.range, req.body, req.valueInputOption)]

RECURSIVE WrittenEach(_, _, _, _)
WrittenEach(rem, data, n, valueInputOption) ==
    IF n > Len(data) THEN rem
    ELSE WrittenEach(Written(rem, data[n].range, data[n], valueInputOption),
                     data, n + 1, valueInputOption)

\* values().batchUpdate(body).execute(): all entries are applied, or none
ValuesBatchUpdate(rem, req, fault) ==
    IF fault = "refused" THEN [error |-> "TransportError", remote |-> rem]
    ELSE IF \E i \in 1..Len(req.body.data) :
                ~WriteOK(rem, req.body.data[i].range, req.body.data[i])
    THEN [error |-> IF fault = "lost" THEN "TransportError" ELSE "HttpError",
          remote |-> rem]
    ELSE [error |-> IF fault = "lost" THEN "TransportError" ELSE None,
          remote |-> WrittenEach(rem, req.body.data, 1, req.body.valueInputOption)]

\* values().clear(range).execute()
ValuesClear(rem, req, fault) ==
    IF fault = "refused" THEN [error |-> "TransportError", remote |-> rem]
    ELSE IF ~RangeOK(rem, req.range)
    THEN [error |-> IF fault = "lost" THEN "TransportError" ELSE "HttpError",
          remote |-> rem]
    ELSE [error |-> IF fault = "lost" THEN "TransportError" ELSE None,
          remote |-> [rem EXCEPT !.cells[req.range.sheet] =
                        [c \in Cells |->
                            IF /\ c[1] \in BoxRect(req.range.box).r1..BoxRect(req.range.box).r2
                               /\ c[2] \in BoxRect(req.range.box).c1..BoxRect(req.range.box).c2
                            THEN Empty ELSE @[c]]]]

----------------------------------------------------------------------------
(* The requests the handle builds, and what it returns *)

clear_request(name) == [api |-> "values.clear", range |-> Address(name, ClearBox)]

get_values_request(range_, dimension) ==
    [api |-> "values.get", range |-> range_, majorDimension |-> upper(dimension)]

get_batch_values_request(ranges, dimension) ==
    [api |-> "values.batchGet", ranges |-> ranges, majorDimension |-> upper(dimension)]

update_values_request(range_, values, dimension) ==
    [api |-> "values.update", range |-> range_,
     body |-> [values |-> values, majorDimension |-> upper(dimension)],
     valueInputOption |-> "USER_ENTERED"]

update_batch_values_request(ranges) ==
    [api |-> "values.batchUpdate",
     body |-> [data |-> [i \in 1..Len(ranges) |->
                            [range |-> ranges[i].range_str,
                             values |-> ranges[i].values,
                             majorDimension |-> ranges[i].dimension]],
               valueInputOption |-> "USER_ENTERED"]]

get_values_columns_only(range_, dimension, fault) ==
    LET resp == ValuesGet(remote, get_values_request(range_, "columns"), fault)
    IN  IF ~resp.ok THEN [exc |-> resp.error, result |-> <<>>]
        ELSE [exc |-> None, result |-> DictGet(resp.body, "values", <<>>)]

\* get_values: the "values" of the response, [] when it has none
get_values(range_, dimension, fault) ==
    LET resp == ValuesGet(remote, get_values_request(range_, dimension), fault)
    IN  IF ~resp.ok THEN [exc |-> resp.error, result |-> <<>>]
        ELSE [exc |-> None, result |-> DictGet(resp.body, "values", <<>>)]

get_batch_values_no_default(ranges, dimension, fault) ==
    LET resp == ValuesBatchGet(remote, get_batch_values_request(ranges, dimension), fault)
        values_rangewise == DictGet(resp.body, "valueRanges", <<>>)
    IN  IF ~resp.ok THEN [exc |-> resp.error, result |-> <<>>]
        ELSE IF \E i \in 1..Len(values_rangewise) : "values" \notin DOMAIN values_rangewise[i]
        THEN [exc |-> "KeyError", result |-> <<>>]
        ELSE [exc |-> None,
              result |-> [i \in 1..Len(values_rangewise) |-> values_rangewise[i].values]]

\* get_batch_values: [i.get("values", []) for i in values_rangewise]
get_batch_values(ranges, dimension, fault) ==
    LET resp == ValuesBatchGet(remote, get_batch_values_request(ranges, dimension), fault)
        values_rangewise == DictGet(resp.body, "valueRanges", <<>>)
    IN  IF ~resp.ok THEN [exc |-> resp.error, result |-> <<>>]
        ELSE [exc |-> None,
              result |-> [i \in 1..Len(values_rangewise) |->
                            DictGet(values_rangewise[i], "values", <<>>)]]

----------------------------------------------------------------------------
(* Actions: ranges *)

ClearSpreadsheetContents_first_tab(name, fault) ==
    /\ constructed
    /\ LET req == [api |-> "values.clear",
                   range |-> Address(remote.sheets[1].title, ClearBox)]
           r == ValuesClear(remote, req, fault)
       IN  /\ sent' = <<req>>
           /\ remote' = r.remote
           /\ lastOp' = [op |-> "clear_spreadsheet_contents", name |-> name,
                         exc |-> r.error]
    /\ UNCHANGED <<constructed, heap, sheets, info>>

ClearSpreadsheetContents(name, fault) ==
    /\ constructed
    /\ LET req == clear_request(name)
           r == ValuesClear(remote, req, fault)
       IN  /\ sent' = <<req>>
           /\ remote' = r.remote
           /\ lastOp' = [op |-> "clear_spreadsheet_contents", name |-> name,
                         exc |-> r.error]
    /\ UNCHANGED <<constructed, heap, sheets, info>>

\* For the read that follows: the values of the write just before it, when that
\* write succeeded on the same address with the same dimension
JustWritten(range_, dimension) ==
    IF /\ lastOp.op = "update_values"
       /\ lastOp.exc = None
       /\ lastOp.range_ = range_
       /\ lastOp.dimension = dimension
    THEN [some |-> TRUE, values |-> lastOp.values]
    ELSE [some |-> FALSE]

GetValues(range_, dimension, fault) ==
    /\ constructed
    /\ LET r == get_values(range_, dimension, fault)
       IN  /\ sent' = <<get_values_request(range_, dimension)>>
           /\ lastOp' = [op |-> "get_values", range_ |-> range_,
                         dimension |-> dimension, exc |-> r.exc, result |-> r.result,
                         written |-> JustWritten(range_, dimension)]
    /\ UNCHANGED <<constructed, heap, sheets, info, remote>>

GetBatchValues(ranges, dimension, fault) ==
    /\ constructed
    /\ LET r == get_batch_values(ranges, dimension, fault)
       IN  /\ sent' = <<get_batch_values_request(ranges, dimension)>>
           /\ lastOp' = [op |-> "get_batch_values", ranges |-> ranges,
                         dimension |-> dimension, exc |-> r.exc, result |-> r.result]
    /\ UNCHANGED <<constructed, heap, sheets, info, remote>>

UpdateValues(range_, values, dimension, fault) ==
    /\ constructed
    /\ LET req == update_values_request(range_, values, dimension)
           r == ValuesUpdate(remote, req, fault)
       IN  /\ sent' = <<req>>
           /\ remote' = r.remote
           /\ lastOp' = [op |-> "update_values", range_ |-> range_, values |-> values,
                         dimension |-> dimension, exc |-> r.error]
    /\ UNCHANGED <<constructed, heap, sheets, info>>

UpdateBatchValues(ranges, fault) ==
    /\ constructed
    /\ LET req == update_batch_values_request(ranges)
           r == ValuesBatchUpdate(remote, req, fault)
       IN  /\ sent' = <<req>>
           /\ remote' = r.remote
           /\ lastOp' = [op |-> "update_batch_values", ranges |-> ranges,
                         exc |-> r.error]
    /\ UNCHANGED <<constructed, heap, sheets, info>>

\* Someone else edits a cell of the spreadsheet
RemoteEditsCell(title, c, content) ==
    /\ title \in RemoteTitles(remote)
    /\ remote.cells[title][c] # content
    /\ remote' = [remote EXCEPT !.cells[title][c] = content]
    /\ sent' = <<>>
    /\ lastOp' = [op |-> "remote: cell edited", exc |-> None]
    /\ UNCHANGED <<constructed, heap, sheets, info>>

----------------------------------------------------------------------------
(* Specification of the range operations *)


ValueArrays ==
    { << <<PyStr("a"), PyStr("b")>>, <<PyStr("a"), PyStr("b")>> >>,
      << <<PyStr("a"), PyStr("")>> >>,
      << <<PyStr("b")>> >>,
      << <<PyInt("1")>> >>,
      << <<PyStr("01")>> >> }

Addresses ==
    { Address("Sheet1", "A1:B2"), Address("Sheet1", "A1:B1"), Address("Sheet2", "A1") }

\* The lists update_batch_values is called with: every single Range over the
\* dimension strings, and lists of two
RangeLists ==
    { <<Range(Address("Sheet1", "A1:B2"), << <<PyStr("a"), PyStr("b")>>, <<PyStr("a"), PyStr("b")>> >>, d)>> :
          d \in DimensionStrings }
    \cup { <<Range(Address("Sheet1", "A1:B1"), << <<PyStr("b")>> >>, "ROWS"),
             Range(Address("Sheet1", "A1:B2"), << <<PyInt("1")>> >>, d)>> : d \in {"COLUMNS", "rows"} }
    \cup { <<Range(Address("Sheet1", "A1"), << <<PyStr("b")>> >>, "COLUMNS"),
             Range(Address("Sheet2", "A1"), << <<PyStr("b")>> >>, "COLUMNS")>> }

BatchDimensions == {"rows", "COLUMNS"}

SeqsUpTo(S, n) == UNION {[1..k -> S] : k \in 0..n}

InitValues ==
    /\ constructed = TRUE
    /\ heap = [r \in {Dict1} |->
                 [n \in Titles |-> GSheet(n, IF n = "Sheet1" THEN 0 ELSE 1)]]
    /\ sheets = Dict1
    /\ info = NoRef
    /\ remote = [sheets |-> <<[title |-> "Sheet1", sheetId |-> 0]>>,
                 cells |-> [t \in {"Sheet1"} |-> EmptyGrid]]
    /\ sent = <<>>
    /\ lastOp = [op |-> "none", exc |-> None]

NextValues ==
    \/ \E name \in Names, fault \in Faults : ClearSpreadsheetContents(name, fault)
    \/ \E range_ \in Addresses, dimension \in DimensionStrings, fault \in {"none", "refused"} :
          GetValues(range_, dimension, fault)
    \/ \E ranges \in SeqsUpTo(Addresses, MaxBatch), dimension \in BatchDimensions,
          fault \in {"none", "refused"} :
          GetBatchValues(ranges, dimension, fault)
    \/ \E range_ \in Addresses, values \in ValueArrays, dimension \in DimensionStrings,
          fault \in {"none", "lost"} :
          UpdateValues(range_, values, dimension, fault)
    \/ \E ranges \in RangeLists, fault \in Faults :
          UpdateBatchValues(ranges, fault)
    \/ \E c \in {<<1, 2>>, <<2, 2>>} : RemoteEditsCell("Sheet1", c, Text("b"))

SpecValues == InitValues /\ [][NextValues]_vars

----------------------------------------------------------------------------
(* Properties of the registry, under Spec *)

LocalOps == {"add_sheet", "remove_sheet", "get_sheets_info"}

\* C1: after add_sheet(r) the registry maps r.name to exactly r, replacing any
\* earlier entry of that name, and every entry under another name is as before.
C1_AddSheetSetsOneEntry ==
    [][lastOp'.op = "add_sheet" =>
        LET r == lastOp'.gsheet
        IN  /\ DOMAIN Registry' = (DOMAIN Registry) \cup {r.name}
            /\ Registry'[r.name] = r
            /\ \A k \in (DOMAIN Registry) \ {r.name} : Registry'[k] = Registry[k]]_vars

C1_Witness ==
    /\ lastOp.op = "add_sheet"
    /\ Registry[lastOp.gsheet.name] = lastOp.gsheet
    /\ Cardinality(DOMAIN Registry) = 3

\* C2: remove_sheet(name) with a name that is no key raises KeyError and leaves
\* the registry as it was; with a key it removes that entry and no other.
C2_RemoveSheetOneEntryOrKeyError ==
    [][lastOp'.op = "remove_sheet" =>
        IF lastOp'.name \in DOMAIN Registry
        THEN /\ lastOp'.exc = None
             /\ DOMAIN Registry' = (DOMAIN Registry) \ {lastOp'.name}
             /\ \A k \in DOMAIN Registry' : Registry'[k] = Registry[k]
        ELSE /\ lastOp'.exc = "KeyError"
             /\ Registry' = Registry]_vars

C2_Witness ==
    /\ lastOp.op = "remove_sheet"
    /\ lastOp.exc = "KeyError"
    /\ DOMAIN Registry # {}

\* C3: right after a successful construction the registry's names are exactly
\* the titles the remote spreadsheet reported, each mapped to the GSheet of
\* that title and the remote sheet id.
C3_ConstructionMirrorsRemoteTabs ==
    (lastOp.op = "__post_init__" /\ lastOp.exc = None) =>
        /\ constructed
        /\ DOMAIN Registry = RemoteTitles(remote)
        /\ \A i \in 1..Len(remote.sheets) :
              Registry[remote.sheets[i].title] =
                  GSheet(remote.sheets[i].title, remote.sheets[i].sheetId)

C3_Witness ==
    /\ lastOp.op = "__post_init__"
    /\ lastOp.exc = None
    /\ DOMAIN Registry = {"Sheet1", "Sheet2"}

\* C7: set_sheets_of_the_spreadsheet merges: after a successful call every
\* title the service reported maps to the fetched GSheet and every entry whose
\* name was not reported is still there unchanged; after a call that raised a
\* remote service error the registry is unchanged.
C7_RefreshMerges ==
    [][lastOp'.op = "set_sheets_of_the_spreadsheet" =>
        IF lastOp'.exc = None
        THEN /\ DOMAIN Registry' = (DOMAIN Registry) \cup RemoteTitles(remote)
             /\ \A i \in 1..Len(remote.sheets) :
                   Registry'[remote.sheets[i].title] =
                       GSheet(remote.sheets[i].title, remote.sheets[i].sheetId)
             /\ \A k \in (DOMAIN Registry) \ RemoteTitles(remote) :
                   Registry'[k] = Registry[k]
        ELSE /\ RemoteServiceError(lastOp'.exc)
             /\ Registry' = Registry]_vars

C7_Witness ==
    /\ lastOp.op = "set_sheets_of_the_spreadsheet"
    /\ lastOp.exc = None
    /\ \E k \in DOMAIN Registry : k \notin RemoteTitles(remote)
    /\ \E k \in DOMAIN Registry : k \in RemoteTitles(remote)

\* C8: get_sheets_info returns a snapshot: the call changes nothing, the value
\* it returned is not changed by a later add_sheet, remove_sheet or
\* set_sheets_of_the_spreadsheet, and changing that value does not change the
\* handle's registry.
C8_GetSheetsInfoSnapshot ==
    [][/\ lastOp'.op = "get_sheets_info" => (heap' = heap /\ remote' = remote)
       /\ (/\ info # NoRef
           /\ lastOp'.op \in {"add_sheet", "remove_sheet",
                              "set_sheets_of_the_spreadsheet"})
             => heap'[info] = heap[info]
       /\ lastOp'.op = "caller: del info[name]" => Registry' = Registry]_vars

\* C9: add_sheet, remove_sheet and get_sheets_info are local: whether they
\* return or raise, they send no request and leave the remote spreadsheet (its
\* tabs and its cells) as it was, so registry and remote tabs may differ.
C9_RegistryOpsAreLocal ==
    [][lastOp'.op \in LocalOps => (sent' = <<>> /\ remote' = remote)]_vars

C9_Witness ==
    /\ lastOp.op = "add_sheet"
    /\ sent = <<>>
    /\ lastOp.gsheet.name \in DOMAIN Registry
    /\ lastOp.gsheet.name \notin RemoteTitles(remote)

----------------------------------------------------------------------------
(* Properties of the range operations, under SpecValues *)

\* Every cell of the array is text that user-entered input stores as typed
PlainText(values) ==
    \A i \in 1..Len(values) : \A j \in 1..Len(values[i]) :
        /\ values[i][j].type = "str"
        /\ Parsed(values[i][j], "USER_ENTERED") = Text(values[i][j].repr)

\* The array, laid out along the dimension, fills the range exactly
Covers(range_, values, dimension) ==
    LET rows == IF upper(dimension) = ROWS THEN values ELSE Transpose(values)
    IN  /\ Len(rows) = NRows(range_)
        /\ \A i \in 1..Len(rows) : Len(rows[i]) = NCols(range_)

ReadAfterWrite ==
    /\ lastOp.op = "get_values"
    /\ lastOp.exc = None
    /\ lastOp.written.some

\* C4, as claimed: update_values followed by get_values on the same address and
\* dimension, nothing in between, returns the array that was written.
C4_RoundTripAnyValues ==
    ReadAfterWrite => lastOp.result = lastOp.written.values

\* C4, amended: the round trip returns the array written when every cell of it
\* is non-empty text that user-entered input keeps as typed and the array fills
\* the range exactly.
C4_RoundTripPlainTextFillingRange ==
    (/\ ReadAfterWrite
     /\ PlainText(lastOp.written.values)
     /\ Covers(lastOp.range_, lastOp.written.values, lastOp.dimension))
        => lastOp.result = lastOp.written.values

C4_Witness ==
    /\ ReadAfterWrite
    /\ PlainText(lastOp.written.values)
    /\ Covers(lastOp.range_, lastOp.written.values, lastOp.dimension)
    /\ lastOp.dimension = "rows"
    /\ lastOp.result = << <<PyStr("a"), PyStr("b")>>, <<PyStr("a"), PyStr("b")>> >>

\* C5: get_batch_values over [R1..Rn] returns n arrays, the i-th equal to what
\* get_values(Ri) returns on the same remote state, in input order; a range
\* with no values yields [] at its position.
C5_BatchReadIsReadPerRange ==
    (/\ lastOp.op = "get_batch_values"
     /\ lastOp.exc # "TransportError"
     /\ \A i \in 1..Len(lastOp.ranges) :
           get_values(lastOp.ranges[i], lastOp.dimension, "none").exc = None)
        => /\ lastOp.exc = None
           /\ Len(lastOp.result) = Len(lastOp.ranges)
           /\ \A i \in 1..Len(lastOp.ranges) :
                 lastOp.result[i] =
                     get_values(lastOp.ranges[i], lastOp.dimension, "none").result

C5_Witness ==
    /\ lastOp.op = "get_batch_values"
    /\ lastOp.exc = None
    /\ Len(lastOp.ranges) = 2
    /\ lastOp.result[1] # <<>>
    /\ lastOp.result[2] = <<>>

\* C6: clear_spreadsheet_contents(name) with a name no sheet has raises a
\* remote service error, and afterwards no cell of the remote spreadsheet and
\* no entry of the registry differs from before.
C6_ClearUnknownSheetFailsCleanly ==
    [][(/\ lastOp'.op = "clear_spreadsheet_contents"
        /\ lastOp'.name \notin RemoteTitles(remote))
         => /\ RemoteServiceError(lastOp'.exc)
            /\ remote' = remote
            /\ heap' = heap]_vars

C6_Witness ==
    /\ lastOp.op = "clear_spreadsheet_contents"
    /\ lastOp.name \notin RemoteTitles(remote)
    /\ lastOp.name \in DOMAIN Registry
    /\ lastOp.exc = "HttpError"
    /\ \E c \in Cells : remote.cells["Sheet1"][c] # Empty

\* C10: update_batch_values with a single Range(address, values, dimension) is
\* update_values(address, values, dimension), for lower and upper case
\* dimensions: the same orientation is sent and the remote spreadsheet ends in
\* the same state.
C10_BatchOfOneIsUpdateValues ==
    [][(/\ lastOp'.op = "update_batch_values"
        /\ Len(lastOp'.ranges) = 1
        /\ lastOp'.exc # "TransportError")
         => LET r == lastOp'.ranges[1]
                single == update_values_request(r.range_str, r.values, r.dimension)
            IN  /\ sent'[1].body.data[1].majorDimension = single.body.majorDimension
                /\ remote' = ValuesUpdate(remote, single, "none").remote]_vars

====
